---- MODULE Spec2Model ----
(***************************************************************************)
(* SkySim: the image population engine (skysim/populate.py), the falloff   *)
(* kernel and time mappings of skysim/settings.py and the part of          *)
(* skysim/__main__.py that drives them.                                    *)
(*                                                                         *)
(* Numbers.  Reals are fixed point:                                        *)
(*   magnitudes                 integers in units of 1e-4 mag              *)
(*   brightness, blend weights  integers in units of 1e-5 (the resolution  *)
(*                              round_columns leaves, utils.py:31)         *)
(*   colour channels            integers in units of 1/CScale              *)
(*   sky positions              integers in units of degrees_per_pixel, so *)
(*                              that field_of_view = image_pixels          *)
(*   Gaussian weights           decimal floats [m, e] = m * 10^e with a    *)
(*                              four digit mantissa                        *)
(***************************************************************************)
EXTENDS Integers, Sequences, FiniteSets, TLC

(***************************************************************************)
(* Bounds of the model                                                     *)
(***************************************************************************)
MaxFrames == 2
MaxCpu == 3
MaxStddev10 == 1
ImagePixels == 4
MaxRows == 3
MaxTypeLen == 3

(***************************************************************************)
(* Program constants                                                       *)
(***************************************************************************)
MINIMUM_BRIGHTNESS == 20000
MAXIMUM_LIGHT_SPREAD == 10
SecondsPerDay == 86400
BOne == 100000
CScale == 1000
ColourLutSize == 256

(***************************************************************************)
(* Arithmetic helpers                                                      *)
(***************************************************************************)
Min2(a, b) == IF a <= b THEN a ELSE b

Max2(a, b) == IF a >= b THEN a ELSE b

RECURSIVE SeqMin(_)
SeqMin(s) == IF Len(s) = 1 THEN s[1] ELSE Min2(s[1], SeqMin(Tail(s)))

RECURSIVE SeqMax(_)
SeqMax(s) == IF Len(s) = 1 THEN s[1] ELSE Max2(s[1], SeqMax(Tail(s)))

\* floor(n / d) for d > 0 and any sign of n
FloorDiv(n, d) == IF n >= 0 THEN n \div d ELSE -((-n + d - 1) \div d)

\* numpy.round / numpy.ndarray.round: nearest, ties to even
RoundDiv(n, d) ==
    LET q == FloorDiv(n, d)
        r == n - q * d
    IN  IF 2 * r < d THEN q
        ELSE IF 2 * r > d THEN q + 1
        ELSE IF q % 2 = 0 THEN q ELSE q + 1

\* ceil(n / d) for d > 0, n >= 0
CeilDiv(n, d) == (n + d - 1) \div d

(***************************************************************************)
(* Decimal floating point, for exp()                                       *)
(***************************************************************************)
DecOne == [m |-> 1000, e |-> -3]

\* exp(-1) = 0.36788
DecExpNeg1 == [m |-> 3679, e |-> -4]

DecMul(a, b) ==
    LET p == a.m * b.m
        big == p >= 10000000
        m0 == IF big THEN RoundDiv(p, 10000) ELSE RoundDiv(p, 1000)
        e0 == IF big THEN a.e + b.e + 4 ELSE a.e + b.e + 3
    IN  IF m0 >= 10000 THEN [m |-> 1000, e |-> e0 + 1] ELSE [m |-> m0, e |-> e0]

\* exp(-k) for a natural k
RECURSIVE DecExpNeg(_)
DecExpNeg(k) ==
    IF k = 0 THEN DecOne
    ELSE IF k % 2 = 0
         THEN LET h == DecExpNeg(k \div 2) IN DecMul(h, h)
         ELSE DecMul(DecExpNeg1, DecExpNeg(k - 1))

RECURSIVE Pow10(_)
Pow10(n) == IF n = 0 THEN 1 ELSE 10 * Pow10(n - 1)

\* the value stored when a float is assigned into an int64 array: truncation
IntCast(f) ==
    IF f.e >= 0 THEN f.m * Pow10(f.e)
    ELSE IF -f.e > 4 THEN 0
    ELSE f.m \div Pow10(-f.e)

\* an integer as a decimal float (0 and 1 are all that a weight in [0,1] needs)
DecOfInt(n) == IF n = 0 THEN [m |-> 0, e |-> 0] ELSE [m |-> 1000 * n, e |-> -3]

(***************************************************************************)
(* ImageSettings: the falloff kernel                                       *)
(***************************************************************************)
maximum_radius(stddev10) == CeilDiv(MAXIMUM_LIGHT_SPREAD * stddev10, 10)

MeshIndex(stddev10) == 0 .. (2 * maximum_radius(stddev10))

radius_vector(stddev10) ==
    [i \in MeshIndex(stddev10) |-> i - maximum_radius(stddev10)]

\* np.meshgrid(radius_vector, radius_vector): axis 0 varies along columns
area_mesh(stddev10) ==
    LET rv == radius_vector(stddev10)
    IN  [a \in 0 .. 1 |->
            [i \in MeshIndex(stddev10) |->
                [j \in MeshIndex(stddev10) |-> IF a = 0 THEN rv[j] ELSE rv[i]]]]

\* the square of radial_distance[i][j]
radial_distance2_rowonly(stddev10, i, j) ==
    LET am == area_mesh(stddev10) IN am[0][i][j] * am[0][i][j]

radial_distance2(stddev10, i, j) ==
    LET am == area_mesh(stddev10)
    IN  am[0][i][j] * am[0][i][j] + am[1][i][j] * am[1][i][j]

\* exp(-(radius^2) / stddev^2), radius given by its square
brightness_gaussian(radius2, stddev10) ==
    DecExpNeg((radius2 * 100) \div (stddev10 * stddev10))

\* mesh = zeros_like(area_mesh[0]) is an integer array; for every location
\* (x, y) = (i, j) of radius r, mesh[y, x] = brightness_gaussian(r)
brightness_scale_mesh(stddev10) ==
    [y \in MeshIndex(stddev10) |->
        [x \in MeshIndex(stddev10) |->
            IntCast(brightness_gaussian(radial_distance2(stddev10, x, y), stddev10))]]

(***************************************************************************)
(* ImageSettings: the time mappings                                        *)
(***************************************************************************)
\* settings.local_datetimes[i] = start + snapshot_frequency * i, as a time of
\* day [hour, minute, second]
local_datetimes(settings, i) ==
    LET st == settings.start_time
        total == (st.hour * 3600 + st.minute * 60 + st.second
                  + settings.snapshot_frequency * i) % SecondsPerDay
    IN  [hour |-> total \div 3600,
         minute |-> (total % 3600) \div 60,
         second |-> total % 60]

\* np.interp(x, xp, fp) at x = num / den, for xp[k] = points[k][1] / 24 and
\* fp[k] = values[points[k][2]] (0-based); the result is kept to the unit below
interp_segment(num, den, points) ==
    IF \E k \in 1 .. Len(points) : points[k][1] * den <= 24 * num
    THEN CHOOSE j \in 1 .. Len(points) :
            /\ points[j][1] * den <= 24 * num
            /\ \A k \in 1 .. Len(points) :
                   points[k][1] * den <= 24 * num => k <= j
    ELSE 0

np_interp(num, den, points, values) ==
    LET j == interp_segment(num, den, points)
    IN  IF j = 0 THEN values[points[1][2] + 1]
        ELSE IF j = Len(points) THEN values[points[j][2] + 1]
        ELSE LET h0 == points[j][1]
                 h1 == points[j + 1][1]
                 y0 == values[points[j][2] + 1]
                 y1 == values[points[j + 1][2] + 1]
             IN  y0 + FloorDiv((y1 - y0) * (24 * num - h0 * den), (h1 - h0) * den)

\* magnitude_mapping[index]: np.interp over np.linspace(0, 1, 24 * 60 * 60),
\* whose entry number index is index / (24 * 60 * 60 - 1)
magnitude_mapping(settings, index) ==
    np_interp(index, SecondsPerDay - 1,
              settings.magnitude_time_indices, settings.magnitude_values)

\* LinearSegmentedColormap.from_list("sky", colour_by_time): a table of
\* ColourLutSize entries, entry i interpolated at i / (ColourLutSize - 1)
colour_lut(settings, i, channel) ==
    LET points == settings.colour_time_indices
        values == [k \in 1 .. Len(settings.colour_values) |->
                      settings.colour_values[k][channel]]
        n == ColourLutSize - 1
    IN  IF i = 0 THEN values[points[1][2] + 1]
        ELSE IF i = n THEN values[points[Len(points)][2] + 1]
        ELSE LET ind == CHOOSE j \in 1 .. Len(points) :
                            /\ points[j][1] * n >= 24 * i
                            /\ \A k \in 1 .. Len(points) :
                                   points[k][1] * n >= 24 * i => k >= j
                 h0 == points[ind - 1][1]
                 h1 == points[ind][1]
                 y0 == values[points[ind - 1][2] + 1]
                 y1 == values[points[ind][2] + 1]
             IN  y0 + RoundDiv((y1 - y0) * (24 * i - h0 * n), (h1 - h0) * n)

\* colour_mapping(day_percentage)[:-1] for day_percentage = seconds / 86400
colour_mapping(settings, seconds) ==
    LET i == Min2((seconds * ColourLutSize) \div SecondsPerDay, ColourLutSize - 1)
    IN  [c \in 1 .. 3 |-> colour_lut(settings, i, c)]

\* LinearSegmentedColormap accepts (value, colour) points only when the values
\* start at 0, end at 1 and never decrease; otherwise it raises ValueError
colormap_points_accepted(points) ==
    /\ Len(points) >= 2
    /\ points[1][1] = 0
    /\ points[Len(points)][1] = 24
    /\ \A k \in 1 .. (Len(points) - 1) : points[k][1] <= points[k + 1][1]

\* the call of the colour map of the settings: the colour, or the ValueError
call_colour_mapping(settings, seconds) ==
    IF colormap_points_accepted(settings.colour_time_indices)
    THEN [kind |-> "value", colour |-> colour_mapping(settings, seconds)]
    ELSE [kind |-> "ValueError", colour |-> <<>>]

(***************************************************************************)
(* populate.py                                                             *)
(***************************************************************************)
Channels == 0 .. 2

Pixels(image_pixels) == 0 .. (image_pixels - 1)

get_empty_image(frames, image_pixels) ==
    [f \in 0 .. (frames - 1) |->
        [c \in Channels |->
            [x \in Pixels(image_pixels) |-> [y \in Pixels(image_pixels) |-> 0]]]]

\* the hours counted from 1 to 24
get_seconds_from_midnight_one_based(local_time) ==
    (local_time.hour + 1) * 3600 + local_time.minute * 60

\* timedelta(hours, minutes, microseconds).total_seconds(): the seconds field
\* of local_time is not passed
get_seconds_from_midnight(local_time) ==
    local_time.hour * 3600 + local_time.minute * 60

get_timed_background_colour(settings, local_datetime) ==
    colour_mapping(settings, get_seconds_from_midnight(local_datetime))

get_timed_magnitude(settings, local_datetime) ==
    LET index == get_seconds_from_midnight(local_datetime)
    IN  magnitude_mapping(settings, index)

\* np.ones_like(frame_matrix) for a (3, X, Y) array
np_ones_like(array) ==
    [c \in DOMAIN array |->
        [x \in DOMAIN array[c] |-> [y \in DOMAIN array[c][x] |-> 1]]]

\* array.T for a (3, X, Y) array: a (Y, X, 3) array
np_transpose(array) ==
    [y \in DOMAIN array[0][0] |->
        [x \in DOMAIN array[0] |-> [c \in DOMAIN array |-> array[c][x][y]]]]

\* array * colour: the colour is broadcast along the last axis
times_colour(array, colour) ==
    [i \in DOMAIN array |->
        [j \in DOMAIN array[i] |->
            [c \in DOMAIN array[i][j] |-> array[i][j][c] * colour[c + 1]]]]

\* np.moveaxis(array, -1, 0): the last axis first, the others in their order
np_moveaxis_last_first(array) ==
    [c \in DOMAIN array[0][0] |->
        [i \in DOMAIN array |-> [j \in DOMAIN array[i] |-> array[i][j][c]]]]

\* np.swapaxes(array, 0, -1)
np_swapaxes_first_last(array) ==
    [c \in DOMAIN array[0][0] |->
        [j \in DOMAIN array[0] |-> [i \in DOMAIN array |-> array[i][j][c]]]]

fill_frame_background(colour, frame_matrix) ==
    LET fake_frame == np_transpose(np_ones_like(frame_matrix))
    IN  np_swapaxes_first_last(times_colour(fake_frame, colour))

filter_objects_brightness_strict(maximum_magnitude, objects_table) ==
    SelectSeq(objects_table, LAMBDA r : r.magnitude < maximum_magnitude)

filter_objects_brightness(maximum_magnitude, objects_table) ==
    SelectSeq(objects_table, LAMBDA r : r.magnitude <= maximum_magnitude)

\* SkyCoord.separation, squared, on the flat sky of one frame
separation2(a, b) ==
    (a.ra - b.ra) * (a.ra - b.ra) + (a.dec - b.dec) * (a.dec - b.dec)

\* object_separations <= fov / 2 * 1.01
filter_objects_fov(radec, fov, objects_table) ==
    SelectSeq(objects_table,
              LAMBDA r : 40000 * separation2(r, radec) <= 10201 * fov * fov)

\* np.log10(magnitude_to_flux(magnitude)) = -magnitude / 2.5, in units of 1e-5
log10_flux_positive(magnitude) == 4 * magnitude

log10_flux(magnitude) == -4 * magnitude

\* a rescale that sends data without spread to new_max
linear_rescale_to_max(data, new_min, new_max) ==
    LET data_min == SeqMin(data)
        data_max == SeqMax(data)
        new_range == new_max - new_min
    IN  [k \in 1 .. Len(data) |->
            IF data_max - data_min = 0 THEN new_max
            ELSE RoundDiv((data[k] - data_min) * new_range, data_max - data_min)
                     + new_min]

linear_rescale(data, new_min, new_max) ==
    LET data_min == SeqMin(data)
        data_max == SeqMax(data)
        data_range == IF data_max - data_min = 0 THEN BOne
                      ELSE data_max - data_min
        new_range == new_max - new_min
    IN  [k \in 1 .. Len(data) |->
            RoundDiv((data[k] - data_min) * new_range, data_range) + new_min]

\* adds the column "brightness", rounded to 5 decimals by round_columns
get_scaled_brightness(object_table) ==
    LET data == [k \in 1 .. Len(object_table) |->
                    log10_flux(object_table[k].magnitude)]
        scaled == linear_rescale(data, MINIMUM_BRIGHTNESS, BOne)
    IN  [k \in 1 .. Len(object_table) |->
            [id |-> object_table[k].id,
             ra |-> object_table[k].ra,
             dec |-> object_table[k].dec,
             magnitude |-> object_table[k].magnitude,
             spectral_type |-> object_table[k].spectral_type,
             brightness |-> scaled[k]]]

pixel_in_frame(xy, image_pixels) ==
    /\ 0 <= xy[1] /\ xy[1] < image_pixels
    /\ 0 <= xy[2] /\ xy[2] < image_pixels

\* np.average([rgb, old_rgb], weights=[weight, 1 - weight]) for one channel
blend_swapped(weight, rgb, old) ==
    RoundDiv(weight * old + (BOne - weight) * rgb, weight + (BOne - weight))

blend_additive(weight, rgb, old) == RoundDiv(weight * rgb, BOne) + old

blend(weight, rgb, old) ==
    RoundDiv(weight * rgb + (BOne - weight) * old, weight + (BOne - weight))

\* the guard of the loop body: pixel_in_frame(frame_xy, frame.shape[-1])
offset_in_frame_wrapping(frame_xy, image_pixels) ==
    /\ -image_pixels <= frame_xy[1] /\ frame_xy[1] < image_pixels
    /\ -image_pixels <= frame_xy[2] /\ frame_xy[2] < image_pixels

offset_in_frame(frame_xy, image_pixels) == pixel_in_frame(frame_xy, image_pixels)

\* numpy index: a negative index counts from the end of the axis
np_index(i, n) == IF i < 0 THEN i + n ELSE i

\* The loops of add_object_to_frame and fill_frame_objects are evaluated pixel
\* by pixel: a pass of either loop changes a pixel from that pixel's value only.

\* the loop body with the kernel weight alone as the weight
add_object_at_unscaled(object_row, mesh, scale_mesh, image_pixels, n, px, py, c, old) ==
    LET size == Cardinality(DOMAIN mesh[0])
        i == (n - 1) \div size
        j == (n - 1) % size
        frame_xy == <<mesh[0][i][j] + object_row.x, mesh[1][i][j] + object_row.y>>
    IN  IF /\ pixel_in_frame(frame_xy, image_pixels)
           /\ frame_xy[1] = px
           /\ frame_xy[2] = py
        THEN RoundDiv(scale_mesh[i][j] * BOne * object_row.rgb[c + 1]
                          + (BOne - scale_mesh[i][j] * BOne) * old, BOne)
        ELSE old

\* one pass of the loop body of add_object_to_frame, at mesh point number n in
\* np.ndenumerate order, seen from pixel (px, py) of channel c holding old
add_object_at(object_row, mesh, scale_mesh, image_pixels, n, px, py, c, old) ==
    LET size == Cardinality(DOMAIN mesh[0])
        i == (n - 1) \div size
        j == (n - 1) % size
        frame_xy == <<mesh[0][i][j] + object_row.x, mesh[1][i][j] + object_row.y>>
    IN  IF /\ offset_in_frame(frame_xy, image_pixels)
           /\ np_index(frame_xy[1], image_pixels) = px
           /\ np_index(frame_xy[2], image_pixels) = py
        THEN blend(scale_mesh[i][j] * object_row.brightness, object_row.rgb[c + 1], old)
        ELSE old

\* the first n passes of the loop over np.ndenumerate(area_mesh[0])
RECURSIVE add_object_loop(_, _, _, _, _, _, _, _, _)
add_object_loop(object_row, mesh, scale_mesh, image_pixels, n, px, py, c, old) ==
    IF n = 0 THEN old
    ELSE add_object_at(object_row, mesh, scale_mesh, image_pixels, n, px, py, c,
             add_object_loop(object_row, mesh, scale_mesh, image_pixels, n - 1,
                             px, py, c, old))

add_object_to_pixel(object_row, mesh, scale_mesh, image_pixels, px, py, c, old) ==
    LET size == Cardinality(DOMAIN mesh[0])
    IN  add_object_loop(object_row, mesh, scale_mesh, image_pixels, size * size,
                        px, py, c, old)

add_object_to_frame(object_row, frame, mesh, scale_mesh) ==
    [c \in DOMAIN frame |->
        [px \in DOMAIN frame[c] |->
            [py \in DOMAIN frame[c][px] |->
                add_object_to_pixel(object_row, mesh, scale_mesh,
                                    Cardinality(DOMAIN frame[c][px]),
                                    px, py, c, frame[c][px][py])]]]

\* np.round(skycoord.to_pixel(wcs)) for the linear WCS of settings.wcs_objects:
\* crpix = image_pixels / 2 (1-based), cdelt = degrees_per_pixel, crval = radec
to_pixel(coordinate, crval, image_pixels) ==
    RoundDiv(2 * (coordinate - crval) + image_pixels - 2, 2)

\* np.flipud: x is the declination pixel, y the right ascension pixel
object_xy(row, settings, index) ==
    LET radec == settings.observation_radec[index]
    IN  [x |-> to_pixel(row.dec, radec.dec, settings.image_pixels),
         y |-> to_pixel(row.ra, radec.ra, settings.image_pixels)]

\* the first n rows of objects_table, taken from row n back to row 1
RECURSIVE fill_rows_reversed(_, _, _, _, _, _, _, _)
fill_rows_reversed(index, objects_table, settings, n, px, py, c, old) ==
    IF n = 0 THEN old
    ELSE LET row == objects_table[n]
             xy == object_xy(row, settings, index)
             object_row == [x |-> xy.x, y |-> xy.y,
                            brightness |-> row.brightness, rgb |-> row.rgb]
         IN  fill_rows_reversed(index, objects_table, settings, n - 1, px, py, c,
                 add_object_to_pixel(object_row, settings.area_mesh,
                     settings.brightness_scale_mesh, settings.image_pixels,
                     px, py, c, old))

\* the first n passes of the loop over the rows of objects_table
RECURSIVE fill_rows(_, _, _, _, _, _, _, _)
fill_rows(index, objects_table, settings, n, px, py, c, old) ==
    IF n = 0 THEN old
    ELSE LET row == objects_table[n]
             xy == object_xy(row, settings, index)
             object_row == [x |-> xy.x, y |-> xy.y,
                            brightness |-> row.brightness, rgb |-> row.rgb]
         IN  add_object_to_pixel(object_row, settings.area_mesh,
                 settings.brightness_scale_mesh, settings.image_pixels, px, py, c,
                 fill_rows(index, objects_table, settings, n - 1, px, py, c, old))

fill_frame_objects(index, frame, objects_table, settings) ==
    [index |-> index,
     frame |-> [c \in DOMAIN frame |->
                  [px \in DOMAIN frame[c] |->
                      [py \in DOMAIN frame[c][px] |->
                          fill_rows(index, objects_table, settings,
                                    Len(objects_table), px, py, c,
                                    frame[c][px][py])]]]]

\* vstack([star_table, planet_tables[frame]])
vstack(star_table, planet_table) == star_table \o planet_table

\* the object table after both filters (populate.py:484-498)
filtered_object_table(settings, star_table, planet_tables, frame) ==
    LET object_table == vstack(star_table, planet_tables[frame])
        current_maximum_magnitude ==
            get_timed_magnitude(settings, local_datetimes(settings, frame))
        bright == filter_objects_brightness(current_maximum_magnitude, object_table)
    IN  filter_objects_fov(settings.observation_radec[frame],
                           settings.field_of_view, bright)

\* the brightness scaled over the whole catalogue, the filters applied after
prepare_object_table_scale_first(settings, star_table, planet_tables, frame) ==
    LET scaled_all == get_scaled_brightness(vstack(star_table, planet_tables[frame]))
        current_maximum_magnitude ==
            get_timed_magnitude(settings, local_datetimes(settings, frame))
        bright == filter_objects_brightness(current_maximum_magnitude, scaled_all)
        scaled == filter_objects_fov(settings.observation_radec[frame],
                                     settings.field_of_view, bright)
    IN  IF Len(scaled) = 0 THEN <<>>
        ELSE [k \in 1 .. Len(scaled) |->
                [id |-> scaled[k].id,
                 ra |-> scaled[k].ra,
                 dec |-> scaled[k].dec,
                 brightness |-> scaled[k].brightness,
                 rgb |-> settings.object_colours[scaled[k].spectral_type]]]

\* "id" is removed by the source with "magnitude" and "spectral_type"; the
\* model keeps it, unread, so that a prepared row can be traced to its record
prepare_object_table(settings, star_table, planet_tables, frame) ==
    LET object_table ==
            filtered_object_table(settings, star_table, planet_tables, frame)
        scaled == get_scaled_brightness(object_table)
    IN  IF Len(object_table) = 0 THEN <<>>
        ELSE [k \in 1 .. Len(scaled) |->
                [id |-> scaled[k].id,
                 ra |-> scaled[k].ra,
                 dec |-> scaled[k].dec,
                 brightness |-> scaled[k].brightness,
                 rgb |-> settings.object_colours[scaled[k].spectral_type]]]

\* prepare_object_table statement by statement, with the tables as Python
\* objects.  A state holds the caller's star_table and planet_tables, the
\* local object_table, and ref: whether object_table is the caller's
\* star_table object ("star") or an object of its own ("new").

\* an in-place change of object_table (a column set or removed)
py_write(state, table) ==
    IF state.ref = "star"
    THEN [state EXCEPT !.table = table, !.star_table = table]
    ELSE [state EXCEPT !.table = table]

\* objects_table[indices]: a new table
py_mask(state, table) == [state EXCEPT !.ref = "new", !.table = table]

\* the planet rows appended to star_table itself, as list.extend would
py_vstack_in_place(state, frame) ==
    [state EXCEPT !.ref = "star",
                  !.table = vstack(state.star_table, state.planet_tables[frame]),
                  !.star_table = vstack(state.star_table, state.planet_tables[frame])]

\* astropy.table.vstack: a new table with copies of the rows
py_vstack(state, frame) ==
    [state EXCEPT !.ref = "new",
                  !.table = vstack(state.star_table, state.planet_tables[frame])]

\* the state after prepare_object_table(settings, star_table, planet_tables,
\* frame); table is the returned table
prepare_object_table_run(state, settings, frame) ==
    LET stacked == py_vstack(state, frame)
        current_maximum_magnitude ==
            get_timed_magnitude(settings, local_datetimes(settings, frame))
        bright == py_mask(stacked,
                      filter_objects_brightness(current_maximum_magnitude,
                                                stacked.table))
        in_view == py_mask(bright,
                       filter_objects_fov(settings.observation_radec[frame],
                                          settings.field_of_view, bright.table))
        scaled == get_scaled_brightness(in_view.table)
    IN  IF Len(in_view.table) = 0 THEN in_view
        ELSE py_write(in_view,
                 [k \in 1 .. Len(scaled) |->
                     [id |-> scaled[k].id,
                      ra |-> scaled[k].ra,
                      dec |-> scaled[k].dec,
                      brightness |-> scaled[k].brightness,
                      rgb |-> settings.object_colours[scaled[k].spectral_type]]])

\* the calls for the frames of order, one after the other on the same
\* star_table and planet_tables objects; tables collects the returned tables
RECURSIVE prepare_in_order(_, _, _, _)
prepare_in_order(state, settings, order, n) ==
    IF n = 0 THEN [state |-> state, tables |-> <<>>]
    ELSE LET before == prepare_in_order(state, settings, order, n - 1)
             after == prepare_object_table_run(before.state, settings, order[n])
         IN  [state |-> after, tables |-> Append(before.tables, after.table)]

\* np.moveaxis(array, 1, -1) on a (frame, channel, x, y) array
np_moveaxis_channel_last(array) ==
    [f \in DOMAIN array |->
        [x \in DOMAIN array[f][0] |->
            [y \in DOMAIN array[f][0][x] |->
                [c \in DOMAIN array[f] |-> array[f][c][x][y]]]]]

\* np.flip(array, axis=1) on a (frame, x, y, channel) array
np_flip_axis1(array) ==
    [f \in DOMAIN array |->
        [x \in DOMAIN array[f] |->
            array[f][Cardinality(DOMAIN array[f]) - 1 - x]]]

\* np.flip(array, axis=2) on a (frame, x, y, channel) array
np_flip_axis2(array) ==
    [f \in DOMAIN array |->
        [x \in DOMAIN array[f] |->
            [y \in DOMAIN array[f][x] |->
                array[f][x][Cardinality(DOMAIN array[f][x]) - 1 - y]]]]

\* np.flip(np.moveaxis(image_matrix, 1, -1), axis=2)
finalize_image(image_matrix, image_pixels) ==
    np_flip_axis2(np_moveaxis_channel_last(image_matrix))

(***************************************************************************)
(* query.py: spectral types.  A string is the sequence of its characters.  *)
(***************************************************************************)
FALLBACK_SPECTRAL_TYPE == <<"f", "a", "l", "l", "b", "a", "c", "k">>

\* spectral_type[:i]
Prefix(spectral_type, i) == SubSeq(spectral_type, 1, i)

\* the shortest acceptable prefix of at most i characters
shortest_prefix_from(spectral_type, acceptable_types, i) ==
    IF \E j \in 1 .. i : Prefix(spectral_type, j) \in acceptable_types
    THEN Prefix(spectral_type,
                CHOOSE j \in 1 .. i :
                    /\ Prefix(spectral_type, j) \in acceptable_types
                    /\ \A k \in 1 .. (j - 1) :
                           Prefix(spectral_type, k) \notin acceptable_types)
    ELSE FALLBACK_SPECTRAL_TYPE

\* the loop "for i in range(len(spectral_type), 0, -1)", entered at i
RECURSIVE longest_prefix_from(_, _, _)
longest_prefix_from(spectral_type, acceptable_types, i) ==
    IF i = 0 THEN FALLBACK_SPECTRAL_TYPE
    ELSE IF Prefix(spectral_type, i) \in acceptable_types
         THEN Prefix(spectral_type, i)
         ELSE longest_prefix_from(spectral_type, acceptable_types, i - 1)

get_single_spectral_type(spectral_type, acceptable_types) ==
    IF Len(spectral_type) = 0 THEN FALLBACK_SPECTRAL_TYPE
    ELSE longest_prefix_from(spectral_type, acceptable_types, Len(spectral_type))

simplify_spectral_types(table, acceptable_types) ==
    [k \in 1 .. Len(table) |->
        [table[k] EXCEPT
            !.spectral_type = get_single_spectral_type(@, acceptable_types)]]

(***************************************************************************)
(* State                                                                   *)
(***************************************************************************)
VARIABLES
    image_settings,  \* ImageSettings, with its cached meshes
    options,         \* parsed command line: [debug]
    cpu_count,       \* multiprocessing.cpu_count()
    star_table,      \* result of get_star_table
    planet_tables,   \* result of get_planet_table, one table per frame
    pc,              \* where main / create_image_matrix stands
    image_matrix,    \* create_image_matrix's array (frame, channel, x, y)
    object_tables,   \* create_image_matrix's list of prepared tables
    tasks,           \* the argument tuples handed to pool.starmap
    status,          \* per task: "queued", "running", "returned", "raised"
    results,         \* per task: what the worker sent back
    started,         \* per task: how many times a worker began it
    completion,      \* task positions in the order they finished
    filled_frames,   \* the list pool.starmap returned
    resorted,        \* how many entries of filled_frames were re-inserted
    exception,       \* the exception in flight, or "none"
    image,           \* main's image, the array create_image_matrix returned
    plotted,         \* number of calls of create_plot
    exit_code,       \* "none", or how main ended
    stderr,          \* what main wrote to sys.stderr
    stdout,          \* what main printed
    queried,         \* number of runs of the catalogue queries
    existing_files,  \* the output paths that exist when main starts
    call             \* the last direct call of a helper, for the helper checks

vars == <<image_settings, options, cpu_count, star_table, planet_tables, pc,
          image_matrix, object_tables, tasks, status, results, started,
          completion, filled_frames, resorted, exception, image, plotted,
          exit_code, stderr, stdout, queried, existing_files, call>>

inputs == <<image_settings, options, cpu_count, star_table, planet_tables,
            existing_files>>

main_vars == <<stderr, stdout, queried>>

pool_vars == <<tasks, status, results, started, completion>>

None == "none"

\* no array yet
NoImage == <<>>

NoCall == [fn |-> "none"]

(***************************************************************************)
(* Inputs                                                                  *)
(***************************************************************************)
Magnitudes == {49900, 49956}

ObjectColours ==
    [A |-> <<1000, 1000, 1000>>, M |-> <<1000, 500, 0>>,
     mars |-> <<500, 0, 0>>, fallback |-> <<500, 500, 500>>]

StartTimes == {[hour |-> 0, minute |-> 5, second |-> 30]}

\* light_spread_stddev of the pipeline runs, in tenths of a pixel
LightSpreads == {1}

Settings(frames, stddev10, start_time) ==
    [frames |-> frames,
     image_pixels |-> ImagePixels,
     field_of_view |-> ImagePixels,
     light_spread_stddev |-> stddev10,
     start_time |-> start_time,
     snapshot_frequency |-> 360,
     observation_radec |-> [f \in 0 .. (frames - 1) |-> [ra |-> f, dec |-> 0]],
     object_colours |-> ObjectColours,
     colour_values |-> <<(<<0, 0, 200>>), (<<500, 800, 1000>>)>>,
     colour_time_indices |-> <<(<<0, 0>>), (<<12, 1>>), (<<24, 0>>)>>,
     magnitude_values |-> <<50000, 49500>>,
     magnitude_time_indices |-> <<(<<0, 0>>), (<<1, 1>>), (<<24, 0>>)>>,
     area_mesh |-> area_mesh(stddev10),
     brightness_scale_mesh |-> brightness_scale_mesh(stddev10)]

Record(id, ra, dec, magnitude, spectral_type) ==
    [id |-> id, ra |-> ra, dec |-> dec, magnitude |-> magnitude,
     spectral_type |-> spectral_type]

StarTables ==
    {<<>>}
    \cup {<<Record("vega", 0, 0, m, "A")>> : m \in Magnitudes}
    \cup {<<Record("vega", 0, 0, 49900, "A"),
               Record("antares", ra, 0, 49905, "M")>> : ra \in {-2, 3}}
    \cup {<<Record("antares", 3, 0, 49905, "M")>>}

PlanetTable == {<<>>, <<Record("mars", 0, 0, 49850, "mars")>>}

(***************************************************************************)
(* main and create_image_matrix                                            *)
(***************************************************************************)
Frames == 0 .. (image_settings.frames - 1)

Positions == 1 .. Len(tasks)

Init ==
    /\ \E frames \in 1 .. MaxFrames, stddev10 \in LightSpreads,
          start_time \in StartTimes, planets \in PlanetTable :
          /\ image_settings = Settings(frames, stddev10, start_time)
          /\ planet_tables = [f \in 0 .. (frames - 1) |-> planets]
    /\ options \in [debug : BOOLEAN, overwrite : {FALSE}, config_file : {"valid"}]
    /\ cpu_count \in 1 .. MaxCpu
    /\ star_table \in StarTables
    /\ pc = "create_image_matrix"
    /\ image_matrix = NoImage
    /\ object_tables = <<>>
    /\ tasks = <<>>
    /\ status = <<>>
    /\ results = <<>>
    /\ started = <<>>
    /\ completion = <<>>
    /\ filled_frames = <<>>
    /\ resorted = 0
    /\ exception = None
    /\ image = NoImage
    /\ plotted = 0
    /\ exit_code = None
    /\ stderr = <<>>
    /\ stdout = <<>>
    /\ queried = 1
    /\ existing_files = {}
    /\ call = NoCall

\* the background colour of frame i
background(settings, i) ==
    fill_frame_background(
        get_timed_background_colour(settings, local_datetimes(settings, i)),
        get_empty_image(settings.frames, settings.image_pixels)[i])

\* populate.py:67-80: allocate, fill the backgrounds, prepare the tables
FillBackgrounds ==
    /\ pc = "create_image_matrix"
    /\ image_matrix' = [i \in Frames |-> background(image_settings, i)]
    /\ object_tables' =
           [i \in Frames |->
               prepare_object_table(image_settings, star_table, planet_tables, i)]
    /\ pc' = "pool"
    /\ UNCHANGED <<inputs, main_vars, pool_vars, filled_frames, resorted, exception, image,
                   plotted, exit_code, call>>

\* the frames of the list comprehension of populate.py:86-90, in order
RECURSIVE dispatched_frames(_, _)
dispatched_frames(tables, n) ==
    IF n = 0 THEN <<>>
    ELSE IF Len(tables[n - 1]) > 0
         THEN Append(dispatched_frames(tables, n - 1), n - 1)
         ELSE dispatched_frames(tables, n - 1)

\* one argument tuple of populate.py:87
task_args_first_frame(i, matrix, tables) ==
    [index |-> i, frame |-> matrix[0], objects_table |-> tables[i]]

task_args(i, matrix, tables) ==
    [index |-> i, frame |-> matrix[i], objects_table |-> tables[i]]

\* Pool(cpu_count() - 1) with no process: ValueError
PoolFails ==
    /\ pc = "pool"
    /\ cpu_count - 1 < 1
    /\ exception' = "ValueError"
    /\ pc' = "raised"
    /\ UNCHANGED <<inputs, main_vars, image_matrix, object_tables, pool_vars, filled_frames,
                   resorted, image, plotted, exit_code, call>>

\* pool.starmap(fill_frame_objects, [...]): the arguments are pickled, each
\* task holds its own copy of its frame and table
StarmapDispatch ==
    /\ pc = "pool"
    /\ cpu_count - 1 >= 1
    /\ LET d == dispatched_frames(object_tables, image_settings.frames)
       IN  /\ tasks' = [k \in 1 .. Len(d) |->
                           task_args(d[k], image_matrix, object_tables)]
           /\ status' = [k \in 1 .. Len(d) |-> "queued"]
           /\ results' = [k \in 1 .. Len(d) |-> [kind |-> "pending"]]
           /\ started' = [k \in 1 .. Len(d) |-> 0]
    /\ completion' = <<>>
    /\ pc' = "starmap"
    /\ UNCHANGED <<inputs, main_vars, image_matrix, object_tables, filled_frames, resorted,
                   exception, image, plotted, exit_code, call>>

Running == {k \in Positions : status[k] = "running"}

\* a free worker process takes the next task of the queue
WorkerStart(k) ==
    /\ pc = "starmap"
    /\ status[k] = "queued"
    /\ \A j \in 1 .. (k - 1) : status[j] # "queued"
    /\ Cardinality(Running) < cpu_count - 1
    /\ status' = [status EXCEPT ![k] = "running"]
    /\ started' = [started EXCEPT ![k] = @ + 1]
    /\ UNCHANGED <<inputs, main_vars, pc, image_matrix, object_tables, tasks, results,
                   completion, filled_frames, resorted, exception, image, plotted,
                   exit_code, call>>

\* a worker sharing the orchestrator's memory, as a thread would: the frame
\* is filled in the slot of image_matrix itself
WorkerReturnInPlace(k) ==
    /\ pc = "starmap"
    /\ status[k] = "running"
    /\ status' = [status EXCEPT ![k] = "returned"]
    /\ \E value \in {fill_frame_objects(tasks[k].index, image_matrix[tasks[k].index],
                                          tasks[k].objects_table, image_settings)} :
           /\ results' = [results EXCEPT ![k] =
                              [kind |-> "value", index |-> value.index,
                               frame |-> value.frame]]
           /\ image_matrix' = [image_matrix EXCEPT ![tasks[k].index] = value.frame]
    /\ completion' = Append(completion, k)
    /\ UNCHANGED <<inputs, main_vars, pc, object_tables, tasks, started,
                   filled_frames, resorted, exception, image, plotted, exit_code,
                   call>>

\* the worker ran fill_frame_objects on its copies and sent the result back
WorkerReturn(k) ==
    /\ pc = "starmap"
    /\ status[k] = "running"
    /\ status' = [status EXCEPT ![k] = "returned"]
    /\ \E value \in {fill_frame_objects(tasks[k].index, tasks[k].frame,
                                          tasks[k].objects_table, image_settings)} :
           results' = [results EXCEPT ![k] =
                          [kind |-> "value", index |-> value.index,
                           frame |-> value.frame]]
    /\ completion' = Append(completion, k)
    /\ UNCHANGED <<inputs, main_vars, pc, image_matrix, object_tables, tasks, started,
                   filled_frames, resorted, exception, image, plotted, exit_code,
                   call>>

\* what becomes of a task whose function raised: it is finished, not re-queued
status_after_raise_retry(k) == "queued"

status_after_raise(k) == "raised"

\* fill_frame_objects raised in the worker; the exception is sent back
WorkerRaise(k) ==
    /\ pc = "starmap"
    /\ status[k] = "running"
    /\ \E e \in {"ValueError", "RuntimeError"} :
           results' = [results EXCEPT ![k] = [kind |-> "error", error |-> e]]
    /\ status' = [status EXCEPT ![k] = status_after_raise(k)]
    /\ completion' = Append(completion, k)
    /\ UNCHANGED <<inputs, main_vars, pc, image_matrix, object_tables, tasks, started,
                   filled_frames, resorted, exception, image, plotted, exit_code,
                   call>>

AllFinished == \A k \in Positions : status[k] \in {"returned", "raised"}

\* results handed over as they arrive, as pool.imap would: the results that
\* are there are returned while other tasks are queued or running
StarmapReturnEarly ==
    /\ pc = "starmap"
    /\ \E k \in Positions : results[k].kind = "value"
    /\ \A k \in Positions : results[k].kind # "error"
    /\ filled_frames' = SelectSeq(results, LAMBDA r : r.kind = "value")
    /\ resorted' = 0
    /\ pc' = "resort"
    /\ UNCHANGED <<inputs, main_vars, image_matrix, object_tables, pool_vars, exception,
                   image, plotted, exit_code, call>>

\* starmap returns the results in the order of its argument list
StarmapReturn ==
    /\ pc = "starmap"
    /\ AllFinished
    /\ \A k \in Positions : results[k].kind = "value"
    /\ filled_frames' = results
    /\ resorted' = 0
    /\ pc' = "resort"
    /\ UNCHANGED <<inputs, main_vars, image_matrix, object_tables, pool_vars, exception,
                   image, plotted, exit_code, call>>

\* starmap re-raises the first exception a task sent back
StarmapRaise ==
    /\ pc = "starmap"
    /\ AllFinished
    /\ \E k \in Positions : results[k].kind = "error"
    /\ LET first == CHOOSE i \in 1 .. Len(completion) :
                        /\ results[completion[i]].kind = "error"
                        /\ \A j \in 1 .. (i - 1) :
                               results[completion[j]].kind # "error"
       IN  exception' = results[completion[first]].error
    /\ pc' = "raised"
    /\ UNCHANGED <<inputs, main_vars, image_matrix, object_tables, pool_vars, filled_frames,
                   resorted, image, plotted, exit_code, call>>

\* the slot of image_matrix an entry of filled_frames is written to
resort_slot_by_position(position, index) == position - 1

resort_slot(position, index) == index

\* populate.py:94-95, one pass of the loop
ResortFrame ==
    /\ pc = "resort"
    /\ resorted < Len(filled_frames)
    /\ LET entry == filled_frames[resorted + 1]
       IN  image_matrix' =
               [image_matrix EXCEPT ![resort_slot(resorted + 1, entry.index)] =
                   entry.frame]
    /\ resorted' = resorted + 1
    /\ UNCHANGED <<inputs, main_vars, pc, object_tables, pool_vars, filled_frames, exception,
                   image, plotted, exit_code, call>>

\* populate.py:97-101: reorder the axes and return to main
ReturnImage ==
    /\ pc = "resort"
    /\ resorted = Len(filled_frames)
    /\ image' = finalize_image(image_matrix, image_settings.image_pixels)
    /\ pc' = "create_plot"
    /\ UNCHANGED <<inputs, main_vars, image_matrix, object_tables, pool_vars, filled_frames,
                   resorted, exception, plotted, exit_code, call>>

\* __main__.py:101-116
CreatePlot ==
    /\ pc = "create_plot"
    /\ plotted' = plotted + 1
    /\ pc' = "done"
    /\ exit_code' = IF options.debug THEN "returned filename" ELSE "returned"
    /\ UNCHANGED <<inputs, main_vars, image_matrix, object_tables, pool_vars, filled_frames,
                   resorted, exception, image, call>>

\* create_plot raised: plot.py turns a PermissionError, an OSError or a failed
\* ffmpeg run into a ValueError
CreatePlotRaises ==
    /\ pc = "create_plot"
    /\ plotted' = plotted + 1
    /\ exception' = "ValueError"
    /\ pc' = "raised"
    /\ UNCHANGED <<inputs, main_vars, image_matrix, object_tables, pool_vars,
                   filled_frames, resorted, image, exit_code, call>>

\* e.args of the exceptions of the model, each item with its Python type.  A
\* UnicodeDecodeError holds (encoding, object, start, end, reason); the others
\* are raised with one message string.
ExceptionArgs(e) ==
    IF e = "UnicodeDecodeError"
    THEN <<[kind |-> "str", text |-> "utf-8"],
           [kind |-> "bytes", text |-> "b'..'"],
           [kind |-> "int", text |-> "5"],
           [kind |-> "int", text |-> "6"],
           [kind |-> "str", text |-> "invalid start byte"]>>
    ELSE <<[kind |-> "str", text |-> e \o " message"]>>

\* isinstance(e, (ValueError, ConnectionError)); UnicodeDecodeError is a
\* subclass of ValueError
caught_by_main(e) == e \in {"ValueError", "ConnectionError", "UnicodeDecodeError"}

\* ' '.join(args) is a TypeError unless every item is a str
joinable(args) == \A k \in 1 .. Len(args) : args[k].kind = "str"

RECURSIVE str_join(_)
str_join(args) ==
    IF Len(args) = 0 THEN ""
    ELSE IF Len(args) = 1 THEN args[1].text
    ELSE args[1].text \o " " \o str_join(Tail(args))

\* __main__.py:104-109
HandleError ==
    /\ pc = "raised"
    /\ IF caught_by_main(exception) /\ ~options.debug
       THEN IF joinable(ExceptionArgs(exception))
            THEN /\ stderr' = Append(stderr,
                                     "error: " \o str_join(ExceptionArgs(exception)))
                 /\ exit_code' = "SystemExit 1"
            ELSE /\ stderr' = stderr
                 /\ exit_code' = "raised TypeError"
       ELSE /\ stderr' = stderr
            /\ exit_code' = "raised " \o exception
    /\ pc' = "done"
    /\ UNCHANGED <<inputs, stdout, queried, image_matrix, object_tables, pool_vars,
                   filled_frames, resorted, exception, image, plotted, call>>

Next ==
    \/ FillBackgrounds
    \/ PoolFails
    \/ StarmapDispatch
    \/ \E k \in Positions : WorkerStart(k)
    \/ \E k \in Positions : WorkerReturn(k)
    \/ \E k \in Positions : WorkerRaise(k)
    \/ StarmapReturn
    \/ StarmapRaise
    \/ ResortFrame
    \/ ReturnImage
    \/ CreatePlot
    \/ CreatePlotRaises
    \/ HandleError

Spec == Init /\ [][Next]_vars

(***************************************************************************)
(* main from the command line on: the steps before create_image_matrix     *)
(***************************************************************************)
\* what options.config_file leads to
ConfigFiles ==
    {"valid", "missing", "directory", "not_toml", "bad_encoding", "bad_toml",
     "bad_settings"}

\* plot_settings.filename
Filename == "SkySim.png"

\* utils.get_tempfile_path: tempfile_path / (zero-filled index + ".png")
get_tempfile_path(settings, frame_index) ==
    "SkySimFiles/" \o ToString(frame_index) \o ".png"

ExistingFileSets ==
    {{}, {Filename}, {get_tempfile_path(image_settings, 1)},
     {Filename, get_tempfile_path(image_settings, 0)}}

MainInit ==
    /\ \E frames \in 1 .. MaxFrames, stddev10 \in LightSpreads,
          start_time \in StartTimes :
          /\ image_settings = Settings(frames, stddev10, start_time)
          /\ planet_tables =
                 [f \in 0 .. (frames - 1) |->
                     <<Record("mars", 0, 0, 49850, "mars")>>]
    /\ options \in [debug : BOOLEAN, overwrite : BOOLEAN, config_file : ConfigFiles]
    /\ cpu_count \in 1 .. 2
    /\ star_table = <<Record("vega", 0, 0, 49900, "A")>>
    /\ existing_files \in ExistingFileSets
    /\ pc = "confirm_config_file"
    /\ image_matrix = NoImage
    /\ object_tables = <<>>
    /\ tasks = <<>>
    /\ status = <<>>
    /\ results = <<>>
    /\ started = <<>>
    /\ completion = <<>>
    /\ filled_frames = <<>>
    /\ resorted = 0
    /\ exception = None
    /\ image = NoImage
    /\ plotted = 0
    /\ exit_code = None
    /\ stderr = <<>>
    /\ stdout = <<>>
    /\ queried = 0
    /\ call = NoCall

\* everything main's steps before create_image_matrix leave alone
pipeline_vars == <<image_matrix, object_tables, pool_vars, filled_frames, resorted,
                   image, plotted, exit_code, call>>

\* __main__.py:76, confirm_config_file
ConfirmConfigFile ==
    /\ pc = "confirm_config_file"
    /\ IF options.config_file \in {"missing", "directory", "not_toml"}
       THEN /\ exception' = "ValueError"
            /\ pc' = "raised"
       ELSE /\ exception' = exception
            /\ pc' = "load_from_toml"
    /\ UNCHANGED <<inputs, main_vars, pipeline_vars>>

\* __main__.py:78, load_from_toml: tomllib.load decodes the file as UTF-8 and
\* only its TOMLDecodeError is turned into a ValueError with a message
LoadFromToml ==
    /\ pc = "load_from_toml"
    /\ IF options.config_file = "bad_encoding"
       THEN /\ exception' = "UnicodeDecodeError"
            /\ pc' = "raised"
       ELSE IF options.config_file \in {"bad_toml", "bad_settings"}
       THEN /\ exception' = "ValueError"
            /\ pc' = "raised"
       ELSE /\ exception' = exception
            /\ pc' = "handle_overwrite"
    /\ UNCHANGED <<inputs, main_vars, pipeline_vars>>

\* __main__.py:261-285: the paths of the run that exist, filename first
check_for_overwrite(settings, files) ==
    LET temps == IF settings.frames > 1
                 THEN {get_tempfile_path(settings, i) : i \in 0 .. (settings.frames - 1)}
                 ELSE {}
    IN  ({Filename} \cup temps) \cap files

\* whether handle_overwrite goes on when paths would be overwritten
overwrite_allowed_always(opts) == TRUE

overwrite_allowed(opts) == opts.overwrite

\* __main__.py:80, handle_overwrite (the message of --verbose 0 and 1)
HandleOverwrite ==
    /\ pc = "handle_overwrite"
    /\ LET overwritten_paths == check_for_overwrite(image_settings, existing_files)
       IN  IF overwritten_paths = {}
           THEN /\ pc' = "queries"
                /\ UNCHANGED <<stdout, exception>>
           ELSE IF overwrite_allowed(options)
           THEN /\ stdout' = Append(stdout, "Overwriting one or more files.")
                /\ pc' = "queries"
                /\ exception' = exception
           ELSE /\ exception' = "ValueError"
                /\ pc' = "raised"
                /\ stdout' = stdout
    /\ UNCHANGED <<inputs, stderr, queried, pipeline_vars>>

\* __main__.py:82-92: get_star_table, get_body_locations, get_planet_table;
\* star_table and planet_tables hold what they return when they succeed
Queries ==
    /\ pc = "queries"
    /\ queried' = queried + 1
    /\ \E outcome \in {"returned", "ValueError", "ConnectionError"} :
           IF outcome = "returned"
           THEN /\ pc' = "create_image_matrix"
                /\ exception' = exception
           ELSE /\ pc' = "raised"
                /\ exception' = outcome
    /\ UNCHANGED <<inputs, stderr, stdout, pipeline_vars>>

MainNext ==
    \/ ConfirmConfigFile
    \/ LoadFromToml
    \/ HandleOverwrite
    \/ Queries
    \/ Next

MainSpec == MainInit /\ [][MainNext]_vars

(***************************************************************************)
(* plot.py: the movie.  files is the set of paths that exist.              *)
(***************************************************************************)
\* plot_settings.tempfile_path
TempDirectory == "SkySimFiles"

\* the paths save_frame writes for the frames of the movie
tempfile_paths(settings) ==
    {get_tempfile_path(settings, i) : i \in 0 .. (settings.frames - 1)}

\* run_ffmpeg: a non-zero return code of ffmpeg is raised as ValueError
run_ffmpeg(ffmpeg_return_code) ==
    IF ffmpeg_return_code # 0 THEN "ValueError" ELSE "returned"

\* movie_cleanup: unlink the temp files, then remove the directory
movie_cleanup(filenames, directory, files) == (files \ filenames) \ {directory}

\* create_multi_plot: the outcome, the paths that exist afterwards and the
\* temp files that were written
create_multi_plot(settings, files, ffmpeg_return_code) ==
    LET made == files \cup {TempDirectory}
        saved == made \cup tempfile_paths(settings)
    IN  IF run_ffmpeg(ffmpeg_return_code) = "ValueError"
        THEN [outcome |-> "ValueError",
              files |-> saved,
              written |-> tempfile_paths(settings)]
        ELSE [outcome |-> "returned",
              files |-> movie_cleanup(tempfile_paths(settings), TempDirectory,
                                      saved \cup {Filename}),
              written |-> tempfile_paths(settings)]

(***************************************************************************)
(* Direct calls of the helpers, on inputs drawn from bounded sets          *)
(***************************************************************************)
UnitMagnitudes == {44000, 49999, 50000, 50001}

UnitThresholds == {49999, 50000}

RECURSIVE TablesOfLength(_)
TablesOfLength(n) ==
    IF n = 0 THEN {<<>>}
    ELSE {Append(t, Record(n, 0, 0, m, "A")) :
             t \in TablesOfLength(n - 1), m \in UnitMagnitudes}

UnitTables == UNION {TablesOfLength(n) : n \in 1 .. MaxRows}

UnitColours == {<<0, 0, 0>>, <<0, 0, 200>>, <<500, 0, 0>>, <<1000, 1000, 1000>>}

UnitBrightness == {MINIMUM_BRIGHTNESS, 50000, BOne}

UnitStddev == {1, 2, 5, 10}

uniform_frame(colour) ==
    fill_frame_background(colour, get_empty_image(1, ImagePixels)[0])

UnitInit ==
    /\ image_settings =
           Settings(1, 1, [hour |-> 0, minute |-> 5, second |-> 0])
    /\ options = [debug |-> FALSE, overwrite |-> FALSE, config_file |-> "valid"]
    /\ cpu_count = 1
    /\ star_table = <<>>
    /\ planet_tables = [f \in 0 .. 0 |-> <<>>]
    /\ pc = "helpers"
    /\ image_matrix = NoImage
    /\ object_tables = <<>>
    /\ tasks = <<>>
    /\ status = <<>>
    /\ results = <<>>
    /\ started = <<>>
    /\ completion = <<>>
    /\ filled_frames = <<>>
    /\ resorted = 0
    /\ exception = None
    /\ image = NoImage
    /\ plotted = 0
    /\ exit_code = None
    /\ stderr = <<>>
    /\ stdout = <<>>
    /\ queried = 1
    /\ existing_files = {}
    /\ call = NoCall

not_call == <<image_settings, options, cpu_count, star_table, planet_tables, pc,
              image_matrix, object_tables, tasks, status, results, started,
              completion, filled_frames, resorted, exception, image, plotted,
              exit_code, stderr, stdout, queried, existing_files>>

CallFilterObjectsBrightness ==
    /\ pc = "helpers"
    /\ call = NoCall
    /\ \E maximum_magnitude \in UnitThresholds, objects_table \in UnitTables :
           call' = [fn |-> "filter_objects_brightness",
                    maximum_magnitude |-> maximum_magnitude,
                    objects_table |-> objects_table,
                    result |-> filter_objects_brightness(maximum_magnitude,
                                                         objects_table)]
    /\ UNCHANGED not_call

CallGetScaledBrightness ==
    /\ pc = "helpers"
    /\ call = NoCall
    /\ \E object_table \in UnitTables :
           call' = [fn |-> "get_scaled_brightness",
                    object_table |-> object_table,
                    result |-> get_scaled_brightness(object_table)]
    /\ UNCHANGED not_call

CallAddObjectToFrame ==
    /\ pc = "helpers"
    /\ call = NoCall
    /\ \E stddev10 \in 1 .. MaxStddev10 :
       \E mesh \in {area_mesh(stddev10)},
          scale_mesh \in {brightness_scale_mesh(stddev10)} :
       \E colour \in UnitColours :
       \E frame \in {uniform_frame(colour)} :
       \E x \in -1 .. ImagePixels, y \in {0, ImagePixels - 1},
          brightness \in UnitBrightness, rgb \in UnitColours :
           LET object_row == [x |-> x, y |-> y, brightness |-> brightness,
                              rgb |-> rgb]
           IN  call' = [fn |-> "add_object_to_frame",
                        object_row |-> object_row,
                        frame |-> frame,
                        area_mesh |-> mesh,
                        brightness_scale_mesh |-> scale_mesh,
                        result |-> add_object_to_frame(object_row, frame,
                                                       mesh, scale_mesh)]
    /\ UNCHANGED not_call

CallBrightnessScaleMesh ==
    /\ pc = "helpers"
    /\ call = NoCall
    /\ \E stddev10 \in UnitStddev :
           call' = [fn |-> "brightness_scale_mesh",
                    light_spread_stddev |-> stddev10,
                    area_mesh |-> area_mesh(stddev10),
                    result |-> brightness_scale_mesh(stddev10)]
    /\ UNCHANGED not_call

\* a zero-filled (3, width, height) frame
frame_of_shape(width, height) ==
    [c \in Channels |-> [x \in 0 .. (width - 1) |-> [y \in 0 .. (height - 1) |-> 0]]]

CallFillFrameBackground ==
    /\ pc = "helpers"
    /\ call = NoCall
    /\ \E width \in 1 .. ImagePixels, height \in 1 .. ImagePixels,
          colour \in UnitColours :
       \E frame_matrix \in {frame_of_shape(width, height)} :
           call' = [fn |-> "fill_frame_background",
                    colour |-> colour,
                    frame_matrix |-> frame_matrix,
                    result |-> fill_frame_background(colour, frame_matrix)]
    /\ UNCHANGED not_call

\* the characters of the spectral types given to the helpers
TypeCharacters == {"K", "I", "?"}

RECURSIVE TypesOfLength(_)
TypesOfLength(n) ==
    IF n = 0 THEN {<<>>}
    ELSE {Append(t, ch) : t \in TypesOfLength(n - 1), ch \in TypeCharacters}

UnitSpectralTypes == UNION {TypesOfLength(n) : n \in 0 .. MaxTypeLen}

UnitAcceptableTypes ==
    {{}, {<<"K">>}, {<<"K">>, <<"K", "I">>}, {<<"K", "I", "I">>, <<"I">>}}

CallGetSingleSpectralType ==
    /\ pc = "helpers"
    /\ call = NoCall
    /\ \E spectral_type \in UnitSpectralTypes,
          acceptable_types \in UnitAcceptableTypes :
           call' = [fn |-> "get_single_spectral_type",
                    spectral_type |-> spectral_type,
                    acceptable_types |-> acceptable_types,
                    result |-> get_single_spectral_type(spectral_type,
                                                        acceptable_types)]
    /\ UNCHANGED not_call

CallSimplifySpectralTypes ==
    /\ pc = "helpers"
    /\ call = NoCall
    /\ \E first \in {<<>>, <<"K", "I", "I">>}, second \in {<<"?">>, <<"I", "K">>},
          acceptable_types \in UnitAcceptableTypes :
       \E table \in {<<[id |-> 1, magnitude |-> 44000, spectral_type |-> first],
                            [id |-> 2, magnitude |-> 50000, spectral_type |-> second]>>} :
           call' = [fn |-> "simplify_spectral_types",
                    table |-> table,
                    acceptable_types |-> acceptable_types,
                    result |-> simplify_spectral_types(table, acceptable_types)]
    /\ UNCHANGED not_call

\* prepared rows (ra, dec, brightness, rgb) for fill_frame_objects
UnitPreparedRows ==
    {[ra |-> ra, dec |-> 0, brightness |-> brightness, rgb |-> rgb] :
        ra \in {0, 1}, brightness \in UnitBrightness,
        rgb \in {<<0, 0, 200>>, <<500, 0, 0>>, <<1000, 1000, 1000>>}}

UnitPreparedTables ==
    {<<>>} \cup {<<a>> : a \in UnitPreparedRows}
           \cup {<<a, b>> : a \in UnitPreparedRows, b \in UnitPreparedRows}

CallFillFrameObjects ==
    /\ pc = "helpers"
    /\ call = NoCall
    /\ \E colour \in {<<0, 0, 0>>, <<0, 0, 200>>} :
       \E frame \in {uniform_frame(colour)},
          objects_table \in UnitPreparedTables :
           call' = [fn |-> "fill_frame_objects",
                    index |-> 0,
                    frame |-> frame,
                    objects_table |-> objects_table,
                    result |-> fill_frame_objects(0, frame, objects_table,
                                                  image_settings)]
    /\ UNCHANGED not_call

\* times of day given to the time helpers
UnitTimes ==
    {[hour |-> h, minute |-> m, second |-> sec] :
        h \in {0, 12, 23}, m \in {0, 11, 59}, sec \in {0, 30, 59}}

CallGetSecondsFromMidnight ==
    /\ pc = "helpers"
    /\ call = NoCall
    /\ \E local_time \in UnitTimes :
           call' = [fn |-> "get_seconds_from_midnight",
                    local_time |-> local_time,
                    result |-> get_seconds_from_midnight(local_time)]
    /\ UNCHANGED not_call

\* the three control points of the settings in each order a configuration
\* file can list them
UnitColourTimeIndices ==
    LET p == <<(<<0, 0>>), (<<12, 1>>), (<<24, 0>>)>>
        orders == {<<p[a], p[b], p[c]>> : a \in 1 .. 3, b \in 1 .. 3, c \in 1 .. 3}
    IN  {points \in orders : {points[k] : k \in 1 .. 3} = {p[1], p[2], p[3]}}

CallColourMapping ==
    /\ pc = "helpers"
    /\ call = NoCall
    /\ \E colour_time_indices \in UnitColourTimeIndices, local_time \in UnitTimes :
           call' = [fn |-> "colour_mapping",
                    colour_time_indices |-> colour_time_indices,
                    seconds |-> get_seconds_from_midnight(local_time),
                    result |-> call_colour_mapping(
                        [image_settings EXCEPT
                            !.colour_time_indices = colour_time_indices],
                        get_seconds_from_midnight(local_time))]
    /\ UNCHANGED not_call

\* entries of the magnitude mapping that are read
UnitIndices == {0, 1, 1800, 3600, 43200, SecondsPerDay - 2, SecondsPerDay - 1}

CallMagnitudeMapping ==
    /\ pc = "helpers"
    /\ call = NoCall
    /\ \E index \in UnitIndices :
           call' = [fn |-> "magnitude_mapping",
                    index |-> index,
                    result |-> magnitude_mapping(image_settings, index)]
    /\ UNCHANGED not_call

\* the orders in which the frames of a two-frame run are prepared
UnitFrameOrders == {<<0>>, <<1>>, <<0, 1>>, <<1, 0>>, <<1, 1>>}

CallPrepareObjectTable ==
    /\ pc = "helpers"
    /\ call = NoCall
    /\ \E table \in StarTables, planets \in [0 .. 1 -> PlanetTable],
          order \in UnitFrameOrders :
       \E settings \in {Settings(2, 1, [hour |-> 0, minute |-> 5, second |-> 30])} :
       \E run \in {prepare_in_order([star_table |-> table, planet_tables |-> planets,
                                      ref |-> "new", table |-> <<>>],
                                     settings, order, Len(order))} :
           call' = [fn |-> "prepare_object_table",
                    settings |-> settings,
                    star_table |-> table,
                    planet_tables |-> planets,
                    order |-> order,
                    result |-> [tables |-> run.tables,
                                star_table |-> run.state.star_table,
                                planet_tables |-> run.state.planet_tables]]
    /\ UNCHANGED not_call

CallCreateMultiPlot ==
    /\ pc = "helpers"
    /\ call = NoCall
    /\ \E frames \in {2, 3}, ffmpeg_return_code \in {0, 1},
          leftover \in {{}, {TempDirectory, get_tempfile_path(image_settings, 0)}} :
           call' = [fn |-> "create_multi_plot",
                    frames |-> frames,
                    files |-> leftover,
                    ffmpeg_return_code |-> ffmpeg_return_code,
                    result |-> create_multi_plot(
                        [image_settings EXCEPT !.frames = frames],
                        leftover, ffmpeg_return_code)]
    /\ UNCHANGED not_call

UnitNext ==
    \/ CallCreateMultiPlot
    \/ CallPrepareObjectTable
    \/ CallMagnitudeMapping
    \/ CallColourMapping
    \/ CallGetSecondsFromMidnight
    \/ CallFillFrameObjects
    \/ CallGetSingleSpectralType
    \/ CallSimplifySpectralTypes
    \/ CallFillFrameBackground
    \/ CallFilterObjectsBrightness
    \/ CallGetScaledBrightness
    \/ CallAddObjectToFrame
    \/ CallBrightnessScaleMesh

UnitSpec == UnitInit /\ [][UnitNext]_vars

(***************************************************************************)
(* Properties                                                              *)
(***************************************************************************)
ImageReturned == pc = "create_plot" \/ plotted > 0

SomeTaskRaised == \E k \in Positions : results[k].kind = "error"

\* C1: whatever the order in which the tasks finished, every entry of
\* filled_frames that was re-inserted sits in the slot of the frame index its
\* task was tagged with, and holds the buffer that task returned.
C1_ResortedByIndex ==
    \A k \in 1 .. resorted :
        /\ results[k].index = tasks[k].index
        /\ image_matrix[tasks[k].index] = results[k].frame

\* two tasks finished in the reverse of their dispatch order and were re-inserted
C1_Witness ==
    /\ pc = "create_plot"
    /\ Len(tasks) = 2
    /\ completion = <<2, 1>>
    /\ results[1].frame # results[2].frame

\* what the strictly sequential run of fill_frame_objects over frames
\* 0 .. frames - 1 on the backgrounds returns
sequential_frame(i) ==
    CHOOSE frame \in
        {fill_frame_objects(i, b, t, image_settings).frame :
            b \in {background(image_settings, i)},
            t \in {prepare_object_table(image_settings, star_table,
                                        planet_tables, i)}} : TRUE

sequential_image ==
    finalize_image([i \in Frames |-> sequential_frame(i)],
                   image_settings.image_pixels)

\* C2: the image create_image_matrix returns after the pool run equals the
\* image of the strictly sequential run on the same catalog and settings.
C2_ParallelEqualsSequential == ImageReturned => image = sequential_image

\* an image was returned in which two frames were composited by the pool
C2_Witness ==
    /\ pc = "create_plot"
    /\ Len(tasks) = 2
    /\ \A k \in Positions : results[k].frame # tasks[k].frame

\* C3: no task is started twice, and once a task has raised no result list is
\* returned, nothing is re-inserted, no image reaches main, create_plot is not
\* called, and main ends by raising or by SystemExit.
C3_TaskFailureAborts ==
    /\ \A k \in Positions : started[k] <= 1
    /\ SomeTaskRaised =>
           /\ pc \in {"starmap", "raised", "done"}
           /\ filled_frames = <<>>
           /\ resorted = 0
           /\ image = NoImage
           /\ plotted = 0
           /\ pc \in {"raised", "done"} => exception \in {"ValueError", "RuntimeError"}
           /\ pc = "done" => exit_code \in {"SystemExit 1", "raised ValueError",
                                             "raised RuntimeError"}

\* main has ended after one task raised and another had returned its frame
C3_Witness ==
    /\ pc = "done"
    /\ \E k \in Positions : results[k].kind = "error"
    /\ \E k \in Positions : results[k].kind = "value"

\* hour * 3600 + minute * 60 + second: the second of the day of a local time
seconds_since_midnight(local_time) ==
    local_time.hour * 3600 + local_time.minute * 60 + local_time.second

catalogue_record(frame, id) ==
    LET t == vstack(star_table, planet_tables[frame])
    IN  t[CHOOSE k \in 1 .. Len(t) : t[k].id = id]

\* C4: every row of every prepared table belongs to a record whose magnitude
\* is at most the magnitude mapping's entry for the frame's local time of day,
\* and which lies within 1.01 * field_of_view / 2 of the frame's pointing.
C4_TablesWithinThresholdAndFov ==
    pc # "create_image_matrix" =>
        \A f \in Frames : \A k \in 1 .. Len(object_tables[f]) :
            LET record == catalogue_record(f, object_tables[f][k].id)
                fov == image_settings.field_of_view
            IN  /\ record.magnitude <=
                       magnitude_mapping(image_settings,
                           seconds_since_midnight(local_datetimes(image_settings, f)))
                /\ 40000 * separation2(object_tables[f][k],
                                       image_settings.observation_radec[f])
                       <= 10201 * fov * fov

\* the positions of objects_table that hold a magnitude <= maximum_magnitude
KeptPositions(maximum_magnitude, objects_table) ==
    {k \in 1 .. Len(objects_table) : objects_table[k].magnitude <= maximum_magnitude}

\* C5: filter_objects_brightness returns the records of magnitude <= the
\* threshold, all of them and no other, in the order they had in the table.
C5_FilterKeepsInclusive ==
    call.fn = "filter_objects_brightness" =>
        LET kept == KeptPositions(call.maximum_magnitude, call.objects_table)
        IN  /\ Len(call.result) = Cardinality(kept)
            /\ \A n \in 1 .. Len(call.result) :
                   \E k \in kept :
                       /\ Cardinality({j \in kept : j < k}) = n - 1
                       /\ call.result[n] = call.objects_table[k]

\* threshold 5.0: a record of magnitude 5.0 is kept, one of 5.0001 dropped
C5_Witness ==
    /\ call.fn = "filter_objects_brightness"
    /\ call.maximum_magnitude = 50000
    /\ \E k \in 1 .. Len(call.objects_table) :
           /\ call.objects_table[k].magnitude = 50000
           /\ \E n \in 1 .. Len(call.result) : call.result[n] = call.objects_table[k]
    /\ \E k \in 1 .. Len(call.objects_table) :
           /\ call.objects_table[k].magnitude = 50001
           /\ \A n \in 1 .. Len(call.result) : call.result[n] # call.objects_table[k]

NonDegenerate(table) ==
    \E j, k \in 1 .. Len(table) : table[j].magnitude # table[k].magnitude

\* C6: for magnitudes that are not all equal the smallest brightness is
\* MINIMUM_BRIGHTNESS, the largest is 1, every record of minimum magnitude has
\* the largest brightness, and a record of smaller magnitude never has a
\* smaller brightness.
C6_ScaledBrightnessRange ==
    (call.fn = "get_scaled_brightness" /\ NonDegenerate(call.object_table)) =>
        LET t == call.result
            n == Len(t)
        IN  /\ n = Len(call.object_table)
            /\ \A k \in 1 .. n : t[k].magnitude = call.object_table[k].magnitude
            /\ \A k \in 1 .. n : t[k].brightness >= MINIMUM_BRIGHTNESS
            /\ \E k \in 1 .. n : t[k].brightness = MINIMUM_BRIGHTNESS
            /\ \A k \in 1 .. n : t[k].brightness <= BOne
            /\ \E k \in 1 .. n : t[k].brightness = BOne
            /\ \A k \in 1 .. n :
                   (\A j \in 1 .. n : t[k].magnitude <= t[j].magnitude)
                       => t[k].brightness = BOne
            /\ \A j, k \in 1 .. n :
                   t[j].magnitude < t[k].magnitude
                       => t[j].brightness >= t[k].brightness

\* three records of three magnitudes got three brightnesses
C6_Witness ==
    /\ call.fn = "get_scaled_brightness"
    /\ Len(call.result) = 3
    /\ call.result[1].magnitude < call.result[2].magnitude
    /\ call.result[2].magnitude < call.result[3].magnitude
    /\ call.result[1].brightness = BOne
    /\ call.result[2].brightness < BOne
    /\ call.result[2].brightness > MINIMUM_BRIGHTNESS
    /\ call.result[3].brightness = MINIMUM_BRIGHTNESS

RgbSum(frame, x, y) == frame[0][x][y] + frame[1][x][y] + frame[2][x][y]

\* an object inside the canvas, not black, of positive brightness
VisibleObject(object_row) ==
    /\ pixel_in_frame(<<object_row.x, object_row.y>>, ImagePixels)
    /\ object_row.rgb # <<0, 0, 0>>
    /\ object_row.brightness > 0

\* C7, as claimed: adding a visible object strictly increases the RGB sum at
\* its pixel.
C7_AddObjectBrightensPixel ==
    (call.fn = "add_object_to_frame" /\ VisibleObject(call.object_row)) =>
        RgbSum(call.result, call.object_row.x, call.object_row.y)
            > RgbSum(call.frame, call.object_row.x, call.object_row.y)

\* C7, amended: adding a visible object whose colour has a larger channel sum
\* than the pixel holds strictly increases the RGB sum at its pixel.
C7_AddObjectBrightensDarkerPixel ==
    (/\ call.fn = "add_object_to_frame"
     /\ VisibleObject(call.object_row)
     /\ call.object_row.rgb[1] + call.object_row.rgb[2] + call.object_row.rgb[3]
            > RgbSum(call.frame, call.object_row.x, call.object_row.y)) =>
        RgbSum(call.result, call.object_row.x, call.object_row.y)
            > RgbSum(call.frame, call.object_row.x, call.object_row.y)

\* a red object of brightness 0.2 was added onto a dark blue pixel
C7_Witness ==
    /\ call.fn = "add_object_to_frame"
    /\ VisibleObject(call.object_row)
    /\ call.object_row.rgb = <<500, 0, 0>>
    /\ call.object_row.brightness = MINIMUM_BRIGHTNESS
    /\ call.frame[2][0][0] = 200
    /\ RgbSum(call.result, call.object_row.x, call.object_row.y) > 200

\* the mesh points whose offset from the object lands on pixel (px, py)
Reaching(px, py) ==
    {ij \in (DOMAIN call.area_mesh[0]) \X (DOMAIN call.area_mesh[0]) :
        /\ call.area_mesh[0][ij[1]][ij[2]] + call.object_row.x = px
        /\ call.area_mesh[1][ij[1]][ij[2]] + call.object_row.y = py}

\* C8: a pixel of the result differs from the frame only by the blend of the
\* one kernel offset that lands on it; offsets that land outside
\* [0, image_pixels), negative ones included, change no pixel.
C8_OutOfBoundsOffsetsSkipped ==
    call.fn = "add_object_to_frame" =>
        \A px \in Pixels(ImagePixels), py \in Pixels(ImagePixels), c \in Channels :
            IF Reaching(px, py) = {}
            THEN call.result[c][px][py] = call.frame[c][px][py]
            ELSE \E ij \in Reaching(px, py) :
                    call.result[c][px][py] =
                        blend(call.brightness_scale_mesh[ij[1]][ij[2]]
                                  * call.object_row.brightness,
                              call.object_row.rgb[c + 1], call.frame[c][px][py])

\* an object outside the canvas at a negative coordinate left the frame as it was
C8_Witness ==
    /\ call.fn = "add_object_to_frame"
    /\ call.object_row.x = -1
    /\ call.object_row.rgb = <<1000, 1000, 1000>>
    /\ call.frame[0][0][0] = 0
    /\ call.result = call.frame

MeshRadius2(i, j) ==
    call.area_mesh[0][i][j] * call.area_mesh[0][i][j]
        + call.area_mesh[1][i][j] * call.area_mesh[1][i][j]

\* C9: the weight stored at every point of brightness_scale_mesh is
\* brightness_gaussian of the point's radius.
C9_MeshHoldsGaussian ==
    call.fn = "brightness_scale_mesh" =>
        \A i \in DOMAIN call.result, j \in DOMAIN call.result :
            DecOfInt(call.result[i][j])
                = brightness_gaussian(MeshRadius2(i, j), call.light_spread_stddev)

\* C10: the weight at radius 0 is 1, a point farther from the centre never has
\* a larger weight (so equal radii have equal weights), and the mesh is equal
\* to its rotations by 90 and 180 degrees and to its reflections.
C10_MeshSymmetricMonotone ==
    call.fn = "brightness_scale_mesh" =>
        LET mesh == call.result
            idx == DOMAIN mesh
            last == Cardinality(idx) - 1
        IN  /\ \A i \in idx, j \in idx : MeshRadius2(i, j) = 0 => mesh[i][j] = 1
            /\ \E i \in idx, j \in idx : MeshRadius2(i, j) = 0
            /\ \A i \in idx, j \in idx, k \in idx, l \in idx :
                   MeshRadius2(i, j) <= MeshRadius2(k, l) => mesh[i][j] >= mesh[k][l]
            /\ \A i \in idx, j \in idx :
                   /\ mesh[i][j] = mesh[j][last - i]
                   /\ mesh[i][j] = mesh[last - i][last - j]
                   /\ mesh[i][j] = mesh[i][last - j]
                   /\ mesh[i][j] = mesh[last - i][j]
                   /\ mesh[i][j] = mesh[j][i]

\* the mesh for a standard deviation of one pixel was built: 21 x 21 weights
C10_Witness ==
    /\ call.fn = "brightness_scale_mesh"
    /\ call.light_spread_stddev = 10
    /\ Cardinality(DOMAIN call.result) = 21
    /\ call.result[10][10] = 1

\* C11: every channel value of every pixel of the image create_image_matrix
\* returned lies in [0, 1].
C11_ImageChannelsInUnitRange ==
    ImageReturned =>
        \A f \in DOMAIN image :
            \A x \in DOMAIN image[f] : \A y \in DOMAIN image[f][x] :
                \A c \in Channels :
                    /\ 0 <= image[f][x][y][c]
                    /\ image[f][x][y][c] <= CScale

\* an image was returned in which a white object of brightness 1 was blended
\* over the background: a pixel holds 1 in every channel
C11_Witness ==
    /\ pc = "create_plot"
    /\ \E k \in Positions :
           \E n \in 1 .. Len(tasks[k].objects_table) :
               /\ tasks[k].objects_table[n].brightness = BOne
               /\ tasks[k].objects_table[n].rgb = <<CScale, CScale, CScale>>
    /\ \E f \in DOMAIN image :
           \E x \in DOMAIN image[f] : \E y \in DOMAIN image[f][x] :
               \A c \in Channels : image[f][x][y][c] = CScale

\* C12: the returned array has the shape (frames, image_pixels, image_pixels,
\* 3) and its element [f][x][y][c] is the composited buffer's element
\* [f][c][x][image_pixels - 1 - y].
C12_ChannelLastOneAxisFlipped ==
    ImageReturned =>
        LET n == image_settings.image_pixels
        IN  /\ DOMAIN image = Frames
            /\ \A f \in Frames :
                   /\ DOMAIN image[f] = Pixels(n)
                   /\ \A x \in Pixels(n) :
                          /\ DOMAIN image[f][x] = Pixels(n)
                          /\ \A y \in Pixels(n) :
                                 /\ DOMAIN image[f][x][y] = Channels
                                 /\ \A c \in Channels :
                                        image[f][x][y][c] =
                                            image_matrix[f][c][x][n - 1 - y]

\* an image was returned whose frame 0 is not its own mirror image along
\* either spatial axis
C12_Witness ==
    /\ pc = "create_plot"
    /\ LET n == image_settings.image_pixels
       IN  /\ \E x \in Pixels(n), y \in Pixels(n) :
                  image[0][x][y] # image[0][x][n - 1 - y]
           /\ \E x \in Pixels(n), y \in Pixels(n) :
                  image[0][x][y] # image[0][n - 1 - x][y]

\* C13: the array fill_frame_background returns has the (3, W, H) shape of the
\* frame it was given, and every pixel of its channel c holds colour[c].
C13_BackgroundKeepsShape ==
    call.fn = "fill_frame_background" =>
        /\ DOMAIN call.result = DOMAIN call.frame_matrix
        /\ \A c \in DOMAIN call.frame_matrix :
               /\ DOMAIN call.result[c] = DOMAIN call.frame_matrix[c]
               /\ \A x \in DOMAIN call.frame_matrix[c] :
                      /\ DOMAIN call.result[c][x] = DOMAIN call.frame_matrix[c][x]
                      /\ \A y \in DOMAIN call.frame_matrix[c][x] :
                             call.result[c][x][y] = call.colour[c + 1]

\* a frame that is wider than high was filled with a colour whose channels differ
C13_Witness ==
    /\ call.fn = "fill_frame_background"
    /\ call.colour = <<500, 0, 0>>
    /\ Cardinality(DOMAIN call.frame_matrix[0]) = 3
    /\ Cardinality(DOMAIN call.frame_matrix[0][0]) = 2
    /\ call.result[0][2][1] = 500
    /\ call.result[2][2][1] = 0

\* C14: when main has ended after a ValueError or ConnectionError was raised
\* in its pipeline, then without --debug it wrote one message to stderr and
\* left by SystemExit(1), and with --debug it wrote nothing and re-raised the
\* exception.
C14_CaughtErrorsExitOrReraise ==
    (pc = "done" /\ caught_by_main(exception)) =>
        IF options.debug
        THEN /\ exit_code = "raised " \o exception
             /\ stderr = <<>>
        ELSE /\ exit_code = "SystemExit 1"
             /\ Len(stderr) = 1

\* an output path of the run exists: the output file, or in a run of several
\* frames the temporary file of one of them
WouldOverwrite ==
    \/ Filename \in existing_files
    \/ /\ image_settings.frames > 1
       /\ \E i \in Frames : get_tempfile_path(image_settings, i) \in existing_files

\* handle_overwrite has been called and has returned or raised
HandleOverwriteDone ==
    /\ options.config_file = "valid"
    /\ pc \notin {"confirm_config_file", "load_from_toml", "handle_overwrite"}

\* C15: once handle_overwrite is over: if a path would be overwritten and
\* --overwrite was not passed, a ValueError is in flight, nothing was printed,
\* no query was made, nothing was composited and create_plot was not called; if
\* --overwrite was passed one notice was printed and the queries follow; if no
\* path exists nothing was printed and the queries follow.
C15_OverwriteGuard ==
    HandleOverwriteDone =>
        IF WouldOverwrite /\ ~options.overwrite
        THEN /\ pc \in {"raised", "done"}
             /\ exception = "ValueError"
             /\ stdout = <<>>
             /\ queried = 0
             /\ image_matrix = NoImage
             /\ tasks = <<>>
             /\ image = NoImage
             /\ plotted = 0
        ELSE /\ stdout = IF WouldOverwrite
                         THEN <<"Overwriting one or more files.">> ELSE <<>>
             /\ pc = "queries" \/ queried = 1

\* a run of two frames ended on the ValueError of handle_overwrite because the
\* temporary file of its second frame existed, the output file did not
C15_Witness ==
    /\ pc = "done"
    /\ HandleOverwriteDone
    /\ image_settings.frames = 2
    /\ existing_files = {get_tempfile_path(image_settings, 1)}
    /\ ~options.overwrite
    /\ exception = "ValueError"
    /\ queried = 0

\* the lengths of the acceptable prefixes of a spectral type
AcceptablePrefixLengths(spectral_type, acceptable_types) ==
    {i \in 1 .. Len(spectral_type) : Prefix(spectral_type, i) \in acceptable_types}

\* C16: get_single_spectral_type returns the longest acceptable prefix of the
\* spectral type, and the fallback key when there is none (an empty type has
\* none); simplify_spectral_types leaves every star with an acceptable type or
\* the fallback key, and changes nothing else.
C16_LongestAcceptablePrefix ==
    /\ call.fn = "get_single_spectral_type" =>
           LET lengths == AcceptablePrefixLengths(call.spectral_type,
                                                  call.acceptable_types)
           IN  IF lengths = {} THEN call.result = FALLBACK_SPECTRAL_TYPE
               ELSE \E i \in lengths :
                       /\ \A j \in lengths : j <= i
                       /\ call.result = Prefix(call.spectral_type, i)
    /\ call.fn = "simplify_spectral_types" =>
           /\ Len(call.result) = Len(call.table)
           /\ \A k \in 1 .. Len(call.result) :
                  /\ call.result[k].spectral_type
                         \in call.acceptable_types \cup {FALLBACK_SPECTRAL_TYPE}
                  /\ call.result[k].id = call.table[k].id
                  /\ call.result[k].magnitude = call.table[k].magnitude

\* "KII" was cut to "KI" although "K" is acceptable too
C16_Witness ==
    /\ call.fn = "get_single_spectral_type"
    /\ call.spectral_type = <<"K", "I", "I">>
    /\ call.acceptable_types = {<<"K">>, <<"K", "I">>}
    /\ call.result = <<"K", "I">>

\* C17: at every pixel a kernel offset lands on, each channel of the result is
\* weight * object colour + (1 - weight) * previous value, with weight = kernel
\* weight * brightness; the result lies between the previous value and the
\* object's colour (a convex combination, not a sum).  Values are compared to
\* within the rounding of one colour unit.
C17_BlendIsWeightedAverage ==
    call.fn = "add_object_to_frame" =>
        \A px \in Pixels(ImagePixels), py \in Pixels(ImagePixels), c \in Channels :
            \A ij \in Reaching(px, py) :
                LET weight == call.brightness_scale_mesh[ij[1]][ij[2]]
                                  * call.object_row.brightness
                    rgb == call.object_row.rgb[c + 1]
                    old == call.frame[c][px][py]
                    new == call.result[c][px][py]
                    exact == weight * rgb + (BOne - weight) * old
                IN  /\ 2 * (new * BOne - exact) <= BOne
                    /\ 2 * (exact - new * BOne) <= BOne
                    /\ Min2(rgb, old) <= new
                    /\ new <= Max2(rgb, old)

\* a red object of brightness 0.5 on a dark blue pixel left half of each there
C17_Witness ==
    /\ call.fn = "add_object_to_frame"
    /\ call.object_row.rgb = <<500, 0, 0>>
    /\ call.object_row.brightness = 50000
    /\ call.object_row.x = 0
    /\ call.object_row.y = 0
    /\ call.frame[2][0][0] = 200
    /\ call.result[0][0][0] = 250
    /\ call.result[2][0][0] = 100

\* the row handed to add_object_to_frame for row n of the table of the call
call_object_row(n) ==
    LET row == call.objects_table[n]
        xy == object_xy(row, image_settings, call.index)
    IN  [x |-> xy.x, y |-> xy.y, brightness |-> row.brightness, rgb |-> row.rgb]

\* frame = add_object_to_frame(row, frame, ...) for the first n rows, in order
RECURSIVE frame_after_rows(_)
frame_after_rows(n) ==
    IF n = 0 THEN call.frame
    ELSE add_object_to_frame(call_object_row(n), frame_after_rows(n - 1),
                             image_settings.area_mesh,
                             image_settings.brightness_scale_mesh)

\* the weight of row n of the call at the pixel the row lands on
call_centre_weight(n) ==
    LET centre == maximum_radius(image_settings.light_spread_stddev)
    IN  image_settings.brightness_scale_mesh[centre][centre]
            * call.objects_table[n].brightness

\* two rows on one pixel of the canvas, of different colours, each with a
\* weight strictly between 0 and 1
TwoRowsOnOnePixel ==
    /\ call.fn = "fill_frame_objects"
    /\ Len(call.objects_table) = 2
    /\ call_object_row(1).x = call_object_row(2).x
    /\ call_object_row(1).y = call_object_row(2).y
    /\ pixel_in_frame(<<call_object_row(1).x, call_object_row(1).y>>, ImagePixels)
    /\ call.objects_table[1].rgb # call.objects_table[2].rgb
    /\ \A n \in 1 .. 2 : 0 < call_centre_weight(n) /\ call_centre_weight(n) < BOne

\* the colour of pixel (x, y) of a frame
PixelColour(frame, x, y) == <<frame[0][x][y], frame[1][x][y], frame[2][x][y]>>

\* C18: fill_frame_objects returns the frame after add_object_to_frame was
\* applied for each row in table order, each on the result of the previous
\* one; with two rows of different colours on one pixel, each of weight
\* strictly between 0 and 1, the table with the rows swapped gives another
\* colour at that pixel.
C18_BlendsInTableOrder ==
    call.fn = "fill_frame_objects" =>
        /\ call.result.index = call.index
        /\ call.result.frame = frame_after_rows(Len(call.objects_table))
        /\ TwoRowsOnOnePixel =>
               LET swapped == <<call.objects_table[2], call.objects_table[1]>>
                   other == fill_frame_objects(call.index, call.frame, swapped,
                                               image_settings).frame
                   x == call_object_row(1).x
                   y == call_object_row(1).y
               IN  PixelColour(other, x, y) # PixelColour(call.result.frame, x, y)

\* a red row then a white row, both of brightness 0.5, on one dark blue pixel
C18_Witness ==
    /\ TwoRowsOnOnePixel
    /\ call.objects_table[1].rgb = <<500, 0, 0>>
    /\ call.objects_table[2].rgb = <<1000, 1000, 1000>>
    /\ call.objects_table[1].brightness = 50000
    /\ call.objects_table[2].brightness = 50000
    /\ call.frame[2][0][0] = 200
    /\ PixelColour(call.result.frame, call_object_row(1).x, call_object_row(1).y)
           = <<625, 500, 550>>

\* the tasks given to the pool are those of the frames with a non-empty
\* table, one task per frame, and no task is started twice
DispatchedExactlyNonEmpty ==
    /\ \A k \in Positions :
           /\ tasks[k].index \in Frames
           /\ Len(object_tables[tasks[k].index]) > 0
           /\ started[k] <= 1
           /\ \A j \in Positions : tasks[j].index = tasks[k].index => j = k
    /\ pc \in {"starmap", "resort", "create_plot"} =>
           \A f \in Frames :
               Len(object_tables[f]) > 0 => \E k \in Positions : tasks[k].index = f

\* the frames of the run that were not dispatched
NotDispatched == {f \in Frames : \A k \in Positions : tasks[k].index # f}

\* the colour mapping's entry for the local time of day of frame f
colour_at_local_time(f) ==
    colour_mapping(image_settings,
                   seconds_since_midnight(local_datetimes(image_settings, f)))

\* every pixel of frame f of the returned image holds colour
FrameIsUniform(f, colour) ==
    \A x \in DOMAIN image[f] : \A y \in DOMAIN image[f][x] :
        \A c \in Channels : image[f][x][y][c] = colour[c + 1]

\* the slots of the frames that were not dispatched hold what
\* get_timed_background_colour returned for them
EmptyFramesKeepComputedColour ==
    ImageReturned =>
        \A f \in NotDispatched :
            FrameIsUniform(f, get_timed_background_colour(image_settings,
                                  local_datetimes(image_settings, f)))

\* C19: a frame with an empty prepared table is never dispatched, exactly the
\* frames with a non-empty table are dispatched, once each, and in the
\* returned image the slot of a frame that was not dispatched holds, at every
\* pixel, the background colour of that frame's local time of day.
C19_EmptyFramesKeepBackground ==
    /\ DispatchedExactlyNonEmpty
    /\ ImageReturned =>
           \A f \in NotDispatched : FrameIsUniform(f, colour_at_local_time(f))

\* a task of the pool has not completed yet
SomeTaskPending == \E k \in Positions : status[k] \in {"queued", "running"}

\* C20: while a dispatched task is queued or running, no result has been
\* handed to create_image_matrix, no slot of the image matrix has been
\* written (each still holds its background) and no image has been built;
\* the write-back and the axis reordering happen after every task returned.
C20_BarrierBeforeWriteBack ==
    /\ SomeTaskPending =>
           /\ pc = "starmap"
           /\ filled_frames = <<>>
           /\ resorted = 0
           /\ image = NoImage
           /\ image_matrix = [i \in Frames |-> background(image_settings, i)]
    /\ (pc \in {"resort", "create_plot"} \/ resorted > 0 \/ image # NoImage) =>
           \A k \in Positions :
               /\ status[k] = "returned"
               /\ results[k].kind = "value"

\* the second task has returned its frame while the first is still running,
\* and nothing has been written back
C20_Witness ==
    /\ pc = "starmap"
    /\ Len(tasks) = 2
    /\ status[1] = "running"
    /\ status[2] = "returned"
    /\ results[2].frame # image_matrix[tasks[2].index]
    /\ filled_frames = <<>>

\* what fill_frame_objects returns for frame i from frame i's background,
\* frame i's prepared table and the settings alone
own_frame_result(i) ==
    CHOOSE frame \in
        {fill_frame_objects(i, b, t, image_settings).frame :
            b \in {background(image_settings, i)},
            t \in {object_tables[i]}} : TRUE

\* C21: every task holds a copy of its own frame's buffer and table; while
\* the pool runs, the orchestrator's image matrix and tables stay as they
\* were at dispatch; and the buffer a task returns is the one computed from
\* its own frame's buffer, table and settings, whatever the other tasks did.
C21_TasksWorkOnOwnCopies ==
    /\ \A k \in Positions :
           /\ tasks[k].frame = background(image_settings, tasks[k].index)
           /\ tasks[k].objects_table = object_tables[tasks[k].index]
           /\ results[k].kind = "value" =>
                  /\ results[k].index = tasks[k].index
                  /\ results[k].frame = own_frame_result(tasks[k].index)
    /\ pc = "starmap" =>
           image_matrix = [i \in Frames |-> background(image_settings, i)]

\* the first task has returned a filled frame while the second is running,
\* and the orchestrator's slot of the first still holds the background
C21_Witness ==
    /\ pc = "starmap"
    /\ Len(tasks) = 2
    /\ status[1] = "returned"
    /\ status[2] = "running"
    /\ results[1].frame # tasks[1].frame
    /\ image_matrix[tasks[1].index] = tasks[1].frame

\* C22: when all records of the table have one magnitude (a table of one
\* record included), get_scaled_brightness returns a value for every record
\* and that value is MINIMUM_BRIGHTNESS.
C22_EqualMagnitudesGetMinimum ==
    (call.fn = "get_scaled_brightness" /\ ~NonDegenerate(call.object_table)) =>
        /\ Len(call.result) = Len(call.object_table)
        /\ \A k \in 1 .. Len(call.result) :
               call.result[k].brightness = MINIMUM_BRIGHTNESS

\* two records of one magnitude both got the minimum brightness
C22_Witness ==
    /\ call.fn = "get_scaled_brightness"
    /\ Len(call.object_table) = 2
    /\ call.object_table[1].magnitude = call.object_table[2].magnitude
    /\ call.result[1].brightness = MINIMUM_BRIGHTNESS
    /\ call.result[2].brightness = MINIMUM_BRIGHTNESS

\* C23: get_seconds_from_midnight returns hour * 3600 + minute * 60 + second
\* for every time of day.
C23_SecondsFromMidnightCountsSeconds ==
    call.fn = "get_seconds_from_midnight" =>
        call.result = call.local_time.hour * 3600 + call.local_time.minute * 60
                          + call.local_time.second

\* the records of frame f's catalogue that pass frame f's two filters
Survivors(f) ==
    filtered_object_table(image_settings, star_table, planet_tables, f)

\* the planet tables with the table of every frame but f replaced
OtherPlanetsReplaced(f, table) ==
    [g \in Frames |-> IF g = f THEN planet_tables[f] ELSE table]

\* the brightness column of a prepared table
Brightnesses(table) == [k \in 1 .. Len(table) |-> table[k].brightness]

\* C24: the brightnesses of frame f are those computed from the records that
\* passed frame f's filters alone: the table prepared from the survivors only,
\* with the filtered-out records removed from the catalogue, has the same
\* brightnesses, and so has the table prepared with another table in place of
\* the other frames' planet tables.
C24_BrightnessFromOwnSurvivors ==
    pc # "create_image_matrix" =>
        \A f \in Frames :
            /\ Brightnesses(object_tables[f]) =
                   Brightnesses(prepare_object_table(image_settings, Survivors(f),
                                    [g \in Frames |-> <<>>], f))
            /\ \A table \in PlanetTable :
                   Brightnesses(object_tables[f]) =
                       Brightnesses(prepare_object_table(image_settings, star_table,
                                        OtherPlanetsReplaced(f, table), f))

\* a frame was prepared in which one record of the catalogue was kept and a
\* brighter or fainter one was filtered out
C24_Witness ==
    /\ pc = "pool"
    /\ \E f \in Frames :
           /\ Len(object_tables[f]) = 1
           /\ \E k \in 1 .. Len(vstack(star_table, planet_tables[f])) :
                  vstack(star_table, planet_tables[f])[k].magnitude
                      # Survivors(f)[1].magnitude

\* the control points of the call in ascending order of their hour
AscendingPoints(points) ==
    CHOOSE sorted \in UnitColourTimeIndices :
        /\ {sorted[k] : k \in 1 .. Len(sorted)} = {points[k] : k \in 1 .. Len(points)}
        /\ \A k \in 1 .. (Len(sorted) - 1) : sorted[k][1] <= sorted[k + 1][1]

\* C25: in whatever order the hour keys of colour_time_indices are listed,
\* the colour mapping returns the colour interpolated between the control
\* points taken in ascending order of their hour.
C25_ColourMappingOrderIndependent ==
    call.fn = "colour_mapping" =>
        /\ call.result.kind = "value"
        /\ call.result.colour =
               colour_mapping([image_settings EXCEPT !.colour_time_indices =
                                  AscendingPoints(call.colour_time_indices)],
                              call.seconds)

\* C26: entry s of the magnitude mapping, for 0 <= s < 86400, is the linear
\* interpolation of the control points at the day-fraction s / 86400.
C26_MagnitudeEntryPerSecond ==
    call.fn = "magnitude_mapping" =>
        /\ call.index \in 0 .. (SecondsPerDay - 1)
        /\ call.result = np_interp(call.index, SecondsPerDay,
                                    image_settings.magnitude_time_indices,
                                    image_settings.magnitude_values)

\* create_image_matrix ended with a ValueError that no task and no plot raised
PoolCreationFailed ==
    /\ pc \in {"raised", "done"}
    /\ exception = "ValueError"
    /\ ~SomeTaskRaised
    /\ plotted = 0

\* C27: on a machine with at least one CPU the pool is created with at least
\* one worker process, and create_image_matrix does not fail because of the
\* pool size.
C27_PoolHasAWorker ==
    cpu_count >= 1 =>
        /\ pc = "pool" => cpu_count - 1 >= 1
        /\ ~PoolCreationFailed

\* C28: after prepare_object_table was called for some frames in some order,
\* star_table and every planet table hold the rows they held before, and the
\* table returned for a frame is the one a first call for that frame returns.
C28_PrepareLeavesInputsUnchanged ==
    call.fn = "prepare_object_table" =>
        /\ call.result.star_table = call.star_table
        /\ call.result.planet_tables = call.planet_tables
        /\ Len(call.result.tables) = Len(call.order)
        /\ \A n \in 1 .. Len(call.order) :
               call.result.tables[n] =
                   prepare_object_table(call.settings, call.star_table,
                                        call.planet_tables, call.order[n])

\* frame 1 was prepared before frame 0, from a catalogue with a star and a
\* planet, and both frames got a table
C28_Witness ==
    /\ call.fn = "prepare_object_table"
    /\ call.order = <<1, 0>>
    /\ Len(call.star_table) > 0
    /\ Len(call.planet_tables[1]) > 0
    /\ Len(call.result.tables[1]) > 0
    /\ Len(call.result.tables[2]) > 0
    /\ call.result.star_table = call.star_table

\* C29: when create_multi_plot has ended, by returning or by raising after
\* ffmpeg failed, none of the temp files it wrote exists and the temp
\* directory is gone.
C29_TempFilesRemovedOnEveryExit ==
    call.fn = "create_multi_plot" =>
        /\ call.result.written # {}
        /\ call.result.written \cap call.result.files = {}
        /\ TempDirectory \notin call.result.files

\* C30: for every time of day the index int(get_seconds_from_midnight(...))
\* is one of the 86,400 entries of the magnitude mapping, and the day-fraction
\* index / 86400 given to the colour mapping is at least 0 and less than 1.
C30_TimeIndexInRange ==
    call.fn = "get_seconds_from_midnight" =>
        /\ 0 <= call.result
        /\ call.result <= SecondsPerDay - 1
        /\ call.result < SecondsPerDay

\* the last second of the day was looked up, at an entry of the mapping
C30_Witness ==
    /\ call.fn = "get_seconds_from_midnight"
    /\ call.local_time = [hour |-> 23, minute |-> 59, second |-> 59]
    /\ call.result = 86340

====
